---- MODULE Spec2Model ----
(***************************************************************************)
(* Model of the two brownie deployment scripts of iotex-staking:           *)
(*   scripts/ganache_deploy.py  (deploy, wire, then smoke-test)            *)
(*   scripts/testnet_deploy.py  (deploy and wire only)                     *)
(* Each script is a straight-line Python procedure.  Every remote call     *)
(* (contract creation, transaction, read-only call) is issued, then the    *)
(* script blocks until the framework confirms it or raises.                *)
(***************************************************************************)
EXTENDS Integers, Sequences, FiniteSets, TLC

\* ------------------------------------------------------------------ bounds
\* read-only calls return one of MaxRead+1 different amounts
MaxRead == 1

\* ------------------------------------------------------- program constants
GAS_LIMIT == 6721975

\* gas field of a call whose transaction dict carries no 'gas' entry
NoGas == 0

NoValue == ""

Scripts == {"ganache", "testnet"}

\* ------------------------------------------------------------- statements
\* X.deploy(args..., {'from': from, 'gas': gas});  result = X.deploy(...)
Deploy(line, cls, args, from, gas, result) ==
    [line |-> line, kind |-> "deploy", target |-> cls, fn |-> "constructor",
     args |-> args, from |-> from, gas |-> gas, value |-> NoValue,
     result |-> result]

\* handle.fn(args..., {'from': from, 'gas': gas, 'value': value})
Tx(line, target, fn, args, from, gas, value) ==
    [line |-> line, kind |-> "tx", target |-> target, fn |-> fn,
     args |-> args, from |-> from, gas |-> gas, value |-> value,
     result |-> ""]

\* handle.fn(args...) on a view function: no transaction dict at all
Call(line, target, fn, args) ==
    [line |-> line, kind |-> "call", target |-> target, fn |-> fn,
     args |-> args, from |-> "", gas |-> NoGas, value |-> NoValue,
     result |-> "$ret"]

\* result = Contract.from_abi(abi, proxy.address, X.abi): local, no remote call
Bind(line, result, abi, proxy) ==
    [line |-> line, kind |-> "bind", target |-> abi, fn |-> "from_abi",
     args |-> <<proxy>>, from |-> "", gas |-> NoGas, value |-> NoValue,
     result |-> result]

\* print(...): local, consumes the values read on the same line
py_print(line) ==
    [line |-> line, kind |-> "print", target |-> "", fn |-> "print",
     args |-> <<>>, from |-> "", gas |-> NoGas, value |-> NoValue,
     result |-> ""]

\* ------------------------------------------------- scripts/ganache_deploy.py
\* variant: the redeem proxy is built around the token implementation
ganache_deploys_wrong_impl ==
    << py_print(13),
       Deploy(15, "stIOTX", <<>>, "deployer", NoGas, "stIOTX_contract"),
       Deploy(19, "TransparentUpgradeableProxy",
              <<"stIOTX_contract", "deployer", "b''">>,
              "deployer", NoGas, "stIOTX_proxy"),
       Deploy(24, "IOTEXStaking", <<>>, "deployer", NoGas,
              "iotexStaking_contract"),
       Deploy(28, "TransparentUpgradeableProxy",
              <<"iotexStaking_contract", "deployer", "b''">>,
              "deployer", NoGas, "iotexStaking_proxy"),
       Deploy(33, "IotexRedeem", <<>>, "deployer", GAS_LIMIT,
              "redeem_contract"),
       Deploy(37, "TransparentUpgradeableProxy",
              <<"stIOTX_contract", "deployer", "b''">>,
              "deployer", GAS_LIMIT, "redeem_proxy") >>

ganache_deploys ==
    << py_print(13),
       Deploy(15, "stIOTX", <<>>, "deployer", NoGas, "stIOTX_contract"),
       Deploy(19, "TransparentUpgradeableProxy",
              <<"stIOTX_contract", "deployer", "b''">>,
              "deployer", NoGas, "stIOTX_proxy"),
       Deploy(24, "IOTEXStaking", <<>>, "deployer", NoGas,
              "iotexStaking_contract"),
       Deploy(28, "TransparentUpgradeableProxy",
              <<"iotexStaking_contract", "deployer", "b''">>,
              "deployer", NoGas, "iotexStaking_proxy"),
       Deploy(33, "IotexRedeem", <<>>, "deployer", GAS_LIMIT,
              "redeem_contract"),
       Deploy(37, "TransparentUpgradeableProxy",
              <<"redeem_contract", "deployer", "b''">>,
              "deployer", GAS_LIMIT, "redeem_proxy") >>

\* variant: the staking contract is pointed at the token implementation
ganache_wiring_impl_addr ==
    << Bind(42, "transparent_stIOTX", "stIOTX", "stIOTX_proxy"),
       Bind(43, "transparent_staking", "IOTEXStaking", "iotexStaking_proxy"),
       Bind(44, "transparent_redeem", "IotexRedeem", "redeem_proxy"),
       Tx(46, "transparent_stIOTX", "initialize", <<>>,
          "owner", GAS_LIMIT, NoValue),
       Tx(50, "transparent_stIOTX", "setMintable",
          <<"transparent_staking", "True">>, "owner", GAS_LIMIT, NoValue),
       Tx(55, "transparent_staking", "initialize", <<>>,
          "owner", GAS_LIMIT, NoValue),
       Tx(59, "transparent_staking", "setStIOTXContractAddress",
          <<"stIOTX_contract">>, "owner", GAS_LIMIT, NoValue),
       Tx(64, "transparent_staking", "setRedeemContract",
          <<"transparent_redeem">>, "owner", GAS_LIMIT, NoValue) >>

ganache_wiring ==
    << Bind(42, "transparent_stIOTX", "stIOTX", "stIOTX_proxy"),
       Bind(43, "transparent_staking", "IOTEXStaking", "iotexStaking_proxy"),
       Bind(44, "transparent_redeem", "IotexRedeem", "redeem_proxy"),
       Tx(46, "transparent_stIOTX", "initialize", <<>>,
          "owner", GAS_LIMIT, NoValue),
       Tx(50, "transparent_stIOTX", "setMintable",
          <<"transparent_staking", "True">>, "owner", GAS_LIMIT, NoValue),
       Tx(55, "transparent_staking", "initialize", <<>>,
          "owner", GAS_LIMIT, NoValue),
       Tx(59, "transparent_staking", "setStIOTXContractAddress",
          <<"transparent_stIOTX">>, "owner", GAS_LIMIT, NoValue),
       Tx(64, "transparent_staking", "setRedeemContract",
          <<"transparent_redeem">>, "owner", GAS_LIMIT, NoValue) >>

\* variant: pullPending is sent from the deployer account
ganache_smoke_mint_from_deployer ==
    << Call(70, "transparent_staking", "exchangeRatio", <<>>),
       Call(70, "transparent_stIOTX", "balanceOf", <<"owner">>),
       py_print(70),
       Tx(71, "transparent_staking", "mint", <<"0", "time.time() + 600">>,
          "owner", NoGas, "1 ethers"),
       Call(72, "transparent_staking", "exchangeRatio", <<>>),
       Call(72, "transparent_stIOTX", "balanceOf", <<"owner">>),
       py_print(72),
       Tx(73, "transparent_staking", "pullPending", <<"owner">>,
          "deployer", NoGas, NoValue),
       Call(74, "transparent_staking", "exchangeRatio", <<>>),
       py_print(74),
       Tx(75, "transparent_staking", "pushBalance", <<"1.1 ethers">>,
          "owner", NoGas, NoValue),
       Call(76, "transparent_staking", "exchangeRatio", <<>>),
       py_print(76) >>

ganache_smoke_mint ==
    << Call(70, "transparent_staking", "exchangeRatio", <<>>),
       Call(70, "transparent_stIOTX", "balanceOf", <<"owner">>),
       py_print(70),
       Tx(71, "transparent_staking", "mint", <<"0", "time.time() + 600">>,
          "owner", NoGas, "1 ethers"),
       Call(72, "transparent_staking", "exchangeRatio", <<>>),
       Call(72, "transparent_stIOTX", "balanceOf", <<"owner">>),
       py_print(72),
       Tx(73, "transparent_staking", "pullPending", <<"owner">>,
          "accounts[0]", NoGas, NoValue),
       Call(74, "transparent_staking", "exchangeRatio", <<>>),
       py_print(74),
       Tx(75, "transparent_staking", "pushBalance", <<"1.1 ethers">>,
          "owner", NoGas, NoValue),
       Call(76, "transparent_staking", "exchangeRatio", <<>>),
       py_print(76) >>

\* variant: the allowance is granted only after the first redeem
ganache_smoke_redeem_late_approve ==
    << Tx(79, "transparent_staking", "redeem",
          <<"0.5 ethers", "0", "time.time() + 600">>,
          "owner", NoGas, NoValue),
       Tx(77, "transparent_stIOTX", "approve",
          <<"transparent_staking", "1000000 ethers">>,
          "owner", NoGas, NoValue),
       Call(78, "transparent_stIOTX", "balanceOf", <<"owner">>),
       Call(78, "transparent_stIOTX", "allowance",
            <<"owner", "transparent_staking">>),
       py_print(78),
       Tx(80, "transparent_staking", "redeemUnderlying",
          <<"0.5 ethers", "100 ethers", "time.time() + 600">>,
          "owner", NoGas, NoValue),
       Call(81, "transparent_staking", "exchangeRatio", <<>>),
       Call(81, "transparent_staking", "debtOf", <<"owner">>),
       py_print(81) >>

ganache_smoke_redeem ==
    << Tx(77, "transparent_stIOTX", "approve",
          <<"transparent_staking", "1000000 ethers">>,
          "owner", NoGas, NoValue),
       Call(78, "transparent_stIOTX", "balanceOf", <<"owner">>),
       Call(78, "transparent_stIOTX", "allowance",
            <<"owner", "transparent_staking">>),
       py_print(78),
       Tx(79, "transparent_staking", "redeem",
          <<"0.5 ethers", "0", "time.time() + 600">>,
          "owner", NoGas, NoValue),
       Tx(80, "transparent_staking", "redeemUnderlying",
          <<"0.5 ethers", "100 ethers", "time.time() + 600">>,
          "owner", NoGas, NoValue),
       Call(81, "transparent_staking", "exchangeRatio", <<>>),
       Call(81, "transparent_staking", "debtOf", <<"owner">>),
       py_print(81) >>

\* variant: the debts are never paid
ganache_smoke_settle_no_payDebts ==
    << Call(83, "transparent_staking", "exchangeRatio", <<>>),
       Call(83, "transparent_staking", "debtOf", <<"owner">>),
       py_print(83),
       Tx(84, "transparent_staking", "pushBalance", <<"0.55 ethers">>,
          "owner", NoGas, NoValue),
       Call(85, "transparent_staking", "exchangeRatio", <<>>),
       py_print(85),
       Call(86, "transparent_redeem", "balanceOf", <<"owner">>),
       py_print(86),
       Call(87, "transparent_redeem", "balanceOf", <<"owner">>),
       Tx(87, "transparent_redeem", "claim", <<"$ret">>,
          "accounts[0]", NoGas, NoValue),
       Call(88, "transparent_redeem", "balanceOf", <<"owner">>),
       py_print(88) >>

ganache_smoke_settle ==
    << Tx(82, "transparent_staking", "payDebts", <<>>,
          "owner", NoGas, "0.55 ethers"),
       Call(83, "transparent_staking", "exchangeRatio", <<>>),
       Call(83, "transparent_staking", "debtOf", <<"owner">>),
       py_print(83),
       Tx(84, "transparent_staking", "pushBalance", <<"0.55 ethers">>,
          "owner", NoGas, NoValue),
       Call(85, "transparent_staking", "exchangeRatio", <<>>),
       py_print(85),
       Call(86, "transparent_redeem", "balanceOf", <<"owner">>),
       py_print(86),
       Call(87, "transparent_redeem", "balanceOf", <<"owner">>),
       Tx(87, "transparent_redeem", "claim", <<"$ret">>,
          "accounts[0]", NoGas, NoValue),
       Call(88, "transparent_redeem", "balanceOf", <<"owner">>),
       py_print(88) >>

ganache_main ==
    ganache_deploys \o ganache_wiring \o ganache_smoke_mint
        \o ganache_smoke_redeem \o ganache_smoke_settle

\* ------------------------------------------------- scripts/testnet_deploy.py
\* variant: the token implementation is deployed twice
testnet_deploys_twice ==
    << py_print(13),
       Deploy(15, "stIOTX", <<>>, "deployer", GAS_LIMIT, "stIOTX_contract"),
       Deploy(15, "stIOTX", <<>>, "deployer", GAS_LIMIT, "stIOTX_contract"),
       Deploy(19, "TransparentUpgradeableProxy",
              <<"stIOTX_contract", "deployer", "b''">>,
              "deployer", GAS_LIMIT, "stIOTX_proxy"),
       Deploy(24, "IOTEXStaking", <<>>, "deployer", GAS_LIMIT,
              "iotexStaking_contract"),
       Deploy(28, "TransparentUpgradeableProxy",
              <<"iotexStaking_contract", "deployer", "b''">>,
              "deployer", GAS_LIMIT, "iotexStaking_proxy"),
       Deploy(33, "IotexRedeem", <<>>, "deployer", GAS_LIMIT,
              "redeem_contract"),
       Deploy(37, "TransparentUpgradeableProxy",
              <<"redeem_contract", "deployer", "b''">>,
              "deployer", GAS_LIMIT, "redeem_proxy") >>

testnet_deploys ==
    << py_print(13),
       Deploy(15, "stIOTX", <<>>, "deployer", GAS_LIMIT, "stIOTX_contract"),
       Deploy(19, "TransparentUpgradeableProxy",
              <<"stIOTX_contract", "deployer", "b''">>,
              "deployer", GAS_LIMIT, "stIOTX_proxy"),
       Deploy(24, "IOTEXStaking", <<>>, "deployer", GAS_LIMIT,
              "iotexStaking_contract"),
       Deploy(28, "TransparentUpgradeableProxy",
              <<"iotexStaking_contract", "deployer", "b''">>,
              "deployer", GAS_LIMIT, "iotexStaking_proxy"),
       Deploy(33, "IotexRedeem", <<>>, "deployer", GAS_LIMIT,
              "redeem_contract"),
       Deploy(37, "TransparentUpgradeableProxy",
              <<"redeem_contract", "deployer", "b''">>,
              "deployer", GAS_LIMIT, "redeem_proxy") >>

\* variant: the two staking setters are issued in the opposite order
testnet_wiring_swapped ==
    << Bind(42, "transparent_stIOTX", "stIOTX", "stIOTX_proxy"),
       Bind(43, "transparent_staking", "IOTEXStaking", "iotexStaking_proxy"),
       Bind(44, "transparent_redeem", "IotexRedeem", "redeem_proxy"),
       Tx(46, "transparent_stIOTX", "initialize", <<>>,
          "owner", GAS_LIMIT, NoValue),
       Tx(50, "transparent_stIOTX", "setMintable",
          <<"transparent_staking", "True">>, "owner", GAS_LIMIT, NoValue),
       Tx(55, "transparent_staking", "initialize", <<>>,
          "owner", GAS_LIMIT, NoValue),
       Tx(64, "transparent_staking", "setRedeemContract",
          <<"transparent_redeem">>, "owner", GAS_LIMIT, NoValue),
       Tx(59, "transparent_staking", "setStIOTXContractAddress",
          <<"transparent_stIOTX">>, "owner", GAS_LIMIT, NoValue) >>

testnet_wiring ==
    << Bind(42, "transparent_stIOTX", "stIOTX", "stIOTX_proxy"),
       Bind(43, "transparent_staking", "IOTEXStaking", "iotexStaking_proxy"),
       Bind(44, "transparent_redeem", "IotexRedeem", "redeem_proxy"),
       Tx(46, "transparent_stIOTX", "initialize", <<>>,
          "owner", GAS_LIMIT, NoValue),
       Tx(50, "transparent_stIOTX", "setMintable",
          <<"transparent_staking", "True">>, "owner", GAS_LIMIT, NoValue),
       Tx(55, "transparent_staking", "initialize", <<>>,
          "owner", GAS_LIMIT, NoValue),
       Tx(59, "transparent_staking", "setStIOTXContractAddress",
          <<"transparent_stIOTX">>, "owner", GAS_LIMIT, NoValue),
       Tx(64, "transparent_staking", "setRedeemContract",
          <<"transparent_redeem">>, "owner", GAS_LIMIT, NoValue) >>

testnet_main == testnet_deploys \o testnet_wiring

main(s) == IF s = "ganache" THEN ganache_main ELSE testnet_main
\* ------------------------------------------------------------ environment
\* local names of main()
EnvVars ==
    {"owner", "deployer",
     "stIOTX_contract", "stIOTX_proxy",
     "iotexStaking_contract", "iotexStaking_proxy",
     "redeem_contract", "redeem_proxy",
     "transparent_stIOTX", "transparent_staking", "transparent_redeem"}

\* the local ganache chain's unlocked accounts, by index
ganache_accounts == <<"accounts[0]", "accounts[1]">>

\* owner / deployer as each script acquires them
owner(s) == IF s = "ganache" THEN ganache_accounts[1] ELSE "iotex-owner"

deployer(s) == IF s = "ganache" THEN ganache_accounts[2] ELSE "iotex-deployer"

\* address of the contract created by the deployer's n-th transaction
Addresses == <<"0xC1", "0xC2", "0xC3", "0xC4", "0xC5", "0xC6", "0xC7", "0xC8">>

ContractAddress(n) == Addresses[n + 1]

\* what a read-only call can return
Amounts == <<"0 wei", "1 wei", "2 wei", "3 wei", "4 wei">>

ReadValues == {Amounts[i] : i \in 1..(MaxRead + 1)}

VARIABLES
    script,   \* which script runs
    pc,       \* index of the next statement of main()
    phase,    \* "idle", or "pending" while a remote call is outstanding
    status,   \* "running", "done" (main returned) or "failed" (exception)
    env,      \* local variables of main()
    abis,     \* ABI name each Contract.from_abi handle was built with
    ret,      \* value of the last read-only call, until it is consumed
    trace,    \* remote calls issued so far, in order of issue
    nonce,    \* number of contracts the deployer has created
    printed   \* number of print() statements executed

vars == <<script, pc, phase, status, env, abis, ret, trace, nonce, printed>>

\* value of an argument or sender expression
Resolve(e) ==
    IF e \in EnvVars THEN env[e]
    ELSE IF e = "$ret" THEN ret
    ELSE IF e = "accounts[0]" THEN ganache_accounts[1]
    ELSE e

ResolveAll(es) == [i \in 1..Len(es) |-> Resolve(es[i])]

stmt == main(script)[pc]

\* the remote call a statement issues
Request(st) ==
    [line |-> st.line, kind |-> st.kind, target |-> st.target,
     to |-> IF st.kind = "deploy" THEN "" ELSE Resolve(st.target),
     fn |-> st.fn, args |-> ResolveAll(st.args),
     sender |-> Resolve(st.from), gas |-> st.gas, value |-> st.value,
     status |-> "pending", created |-> ""]

\* variant: the next statement runs without waiting for the outstanding call
CanIssueAsync == status = "running"

\* main() runs the next statement only when nothing is outstanding
CanIssue == status = "running" /\ phase = "idle"

NextPc(p) == p + 1

\* variant: the exception is swallowed and the statement is run again
StatusAfterFailRetry == "running"

\* an exception raised by the framework is not caught anywhere in main()
StatusAfterFail == "failed"

Last == trace[Len(trace)]

Settle(st, addr) ==
    [trace EXCEPT ![Len(trace)] = [@ EXCEPT !.status = st, !.created = addr]]

Init ==
    /\ script \in Scripts
    /\ pc = 1
    /\ phase = "idle"
    /\ status = "running"
    /\ env = [v \in EnvVars |->
                IF v = "owner" THEN owner(script)
                ELSE IF v = "deployer" THEN deployer(script)
                ELSE ""]
    /\ abis = [v \in EnvVars |-> ""]
    /\ ret = ""
    /\ trace = <<>>
    /\ nonce = 0
    /\ printed = 0

\* the script sends a creation, a transaction or a read-only call and blocks
Issue ==
    /\ CanIssue
    /\ pc <= Len(main(script))
    /\ stmt.kind \in {"deploy", "tx", "call"}
    /\ trace' = Append(trace, Request(stmt))
    /\ phase' = "pending"
    /\ UNCHANGED <<script, pc, status, env, abis, ret, nonce, printed>>

\* a contract creation is mined: the handle is bound to the new address
ConfirmDeploy ==
    /\ status = "running" /\ phase = "pending"
    /\ Last.kind = "deploy"
    /\ trace' = Settle("confirmed", ContractAddress(nonce))
    /\ env' = [env EXCEPT ![stmt.result] = ContractAddress(nonce)]
    /\ nonce' = nonce + 1
    /\ pc' = NextPc(pc)
    /\ phase' = "idle"
    /\ UNCHANGED <<script, status, abis, ret, printed>>

\* a transaction is mined
ConfirmTx ==
    /\ status = "running" /\ phase = "pending"
    /\ Last.kind = "tx"
    /\ trace' = Settle("confirmed", "")
    /\ ret' = ""
    /\ pc' = NextPc(pc)
    /\ phase' = "idle"
    /\ UNCHANGED <<script, status, env, abis, nonce, printed>>

\* a read-only call returns some value
ConfirmCall ==
    /\ status = "running" /\ phase = "pending"
    /\ Last.kind = "call"
    /\ \E v \in ReadValues : ret' = v
    /\ trace' = Settle("confirmed", "")
    /\ pc' = NextPc(pc)
    /\ phase' = "idle"
    /\ UNCHANGED <<script, status, env, abis, nonce, printed>>

\* the outstanding call reverts or is rejected: the exception ends main()
Fail ==
    /\ status = "running" /\ phase = "pending"
    /\ trace' = Settle("failed", "")
    /\ status' = StatusAfterFail
    /\ phase' = "idle"
    /\ UNCHANGED <<script, pc, env, abis, ret, nonce, printed>>

\* Contract.from_abi: wrap a proxy address with an implementation's ABI
BindStep ==
    /\ CanIssue
    /\ pc <= Len(main(script))
    /\ stmt.kind = "bind"
    /\ env' = [env EXCEPT ![stmt.result] = Resolve(stmt.args[1])]
    /\ abis' = [abis EXCEPT ![stmt.result] = stmt.target]
    /\ pc' = NextPc(pc)
    /\ UNCHANGED <<script, phase, status, ret, trace, nonce, printed>>

\* print(): the values read on the line are written out and dropped
PrintStep ==
    /\ CanIssue
    /\ pc <= Len(main(script))
    /\ stmt.kind = "print"
    /\ printed' = printed + 1
    /\ ret' = ""
    /\ pc' = NextPc(pc)
    /\ UNCHANGED <<script, phase, status, env, abis, trace, nonce>>

\* main() falls off its last statement
Return ==
    /\ CanIssue
    /\ pc > Len(main(script))
    /\ status' = "done"
    /\ UNCHANGED <<script, pc, phase, env, abis, ret, trace, nonce, printed>>

Next ==
    \/ Issue
    \/ ConfirmDeploy
    \/ ConfirmTx
    \/ ConfirmCall
    \/ Fail
    \/ BindStep
    \/ PrintStep
    \/ Return

Spec == Init /\ [][Next]_vars

\* a blocking call always returns or raises, and the interpreter always
\* runs the next statement
FairSpec == Spec /\ WF_vars(Next)

TypeOK ==
    /\ script \in Scripts
    /\ pc \in 1..(Len(main(script)) + 1)
    /\ phase \in {"idle", "pending"}
    /\ status \in {"running", "done", "failed"}
    /\ nonce \in 0..6
\* ------------------------------------------------------- derived notions
Idx == 1..Len(trace)

ImplClasses == {"stIOTX", "IOTEXStaking", "IotexRedeem"}

Handles == {"transparent_stIOTX", "transparent_staking", "transparent_redeem"}

Setters == {"setMintable", "setStIOTXContractAddress", "setRedeemContract"}

IsRemote(st) == st.kind \in {"deploy", "tx", "call"}

IsStateChanging(r) == r.kind \in {"deploy", "tx"}

IsProxyDeploy(r) ==
    r.kind = "deploy" /\ r.target = "TransparentUpgradeableProxy"

IsImplDeploy(r) == r.kind = "deploy" /\ r.target \in ImplClasses

Confirmed(i) == trace[i].status = "confirmed"

\* the remote calls of a script, in textual order
RemoteStmts(s) == SelectSeq(main(s), IsRemote)

\* addresses of the implementations / proxies created so far
ImplAddrs == {trace[i].created : i \in {j \in Idx : IsImplDeploy(trace[j]) /\ Confirmed(j)}}

ProxyAddrs == {trace[i].created : i \in {j \in Idx : IsProxyDeploy(trace[j]) /\ Confirmed(j)}}

\* addresses of the confirmed proxies that wrap an implementation of class c
ProxiesOf(c) ==
    {trace[i].created : i \in
        {k \in Idx : /\ IsProxyDeploy(trace[k]) /\ Confirmed(k)
                     /\ \E j \in 1..(k - 1) :
                           /\ trace[j].kind = "deploy" /\ trace[j].target = c
                           /\ Confirmed(j)
                           /\ trace[k].args[1] = trace[j].created}}

\* first arguments of the confirmed calls of setter fn on contract a
Wired(a, fn) ==
    {trace[i].args[1] : i \in
        {k \in Idx : trace[k].fn = fn /\ trace[k].to = a /\ Confirmed(k)}}

IsPrefix(a, b) == Len(a) <= Len(b) /\ \A i \in 1..Len(a) : a[i] = b[i]

\* a call with accounts, amounts, gas and timing abstracted away
Abs(r) == <<r.kind, r.target, r.fn>>

AbsSeq(q) == [i \in 1..Len(q) |-> Abs(q[i])]

Other(s) == IF s = "ganache" THEN "testnet" ELSE "ganache"

\* ------------------------------------------------------------------ C1
\* C1: every proxy deployment is issued after the confirmed deployment of
\* the implementation it wraps, with constructor arguments exactly
\* (that implementation's address, the deployer as admin, empty bytes); no
\* two proxies wrap the same implementation, and each handle built with the
\* ABI of contract X points at a proxy that wraps an X implementation.
C1_ProxyAfterImpl ==
    /\ \A i \in Idx : IsProxyDeploy(trace[i]) =>
          /\ \E j \in 1..(i - 1) :
                /\ IsImplDeploy(trace[j]) /\ Confirmed(j)
                /\ trace[i].args = <<trace[j].created, deployer(script), "b''">>
          /\ \A k \in Idx : (k # i /\ IsProxyDeploy(trace[k])) =>
                trace[k].args[1] # trace[i].args[1]
    /\ \A h \in Handles : abis[h] # "" => env[h] \in ProxiesOf(abis[h])

C1_Witness ==
    /\ nonce = 6
    /\ \A h \in Handles : abis[h] # ""
    /\ Cardinality(ProxyAddrs) = 3

\* ------------------------------------------------------------------ C2
\* C2: when a run completes, an argument-less initialize has been issued on
\* each of the three proxied contracts (token, staking, redemption).
C2_InitializeOnEach ==
    status = "done" =>
        \A h \in Handles :
            \E i \in Idx : /\ trace[i].fn = "initialize"
                           /\ trace[i].to = env[h]
                           /\ trace[i].args = <<>>

\* ------------------------------------------------------------------ C3
\* C3: a failed call halts the script at that call: the failed call is the
\* last call ever issued (no retry, no later call, no compensating call) and
\* the run is over.
C3_FailureHalts ==
    /\ \A i \in Idx : trace[i].status = "failed" =>
          i = Len(trace) /\ status = "failed" /\ phase = "idle"
    /\ status = "failed" => (trace # <<>> /\ Last.status = "failed")
    /\ status = "failed" => ~ENABLED Next

C3_Witness ==
    /\ status = "failed"
    /\ script = "ganache"
    /\ Last.fn = "claim"

\* ------------------------------------------------------------------ C4
\* C4: at most one remote call is outstanding, every call but the last one
\* issued is confirmed, and the calls appear in the textual order of the
\* script.
C4_Sequential ==
    /\ Cardinality({i \in Idx : trace[i].status = "pending"}) <= 1
    /\ \A i \in 1..(Len(trace) - 1) : Confirmed(i)
    /\ Len(trace) <= Len(RemoteStmts(script))
    /\ \A i \in Idx : /\ trace[i].line = RemoteStmts(script)[i].line
                      /\ trace[i].fn = RemoteStmts(script)[i].fn
                      /\ trace[i].target = RemoteStmts(script)[i].target

C4_Witness ==
    /\ phase = "pending"
    /\ Len(trace) = 20
    /\ \A i \in 1..19 : Confirmed(i)

\* ------------------------------------------------------------------ C5
\* C5 (as stated): a complete run of one script produces, with accounts and
\* numeric parameters abstracted away, the same trace of calls as the other
\* script.
C5_SameTrace ==
    status = "done" => AbsSeq(trace) = AbsSeq(RemoteStmts(Other(script)))

\* C5 (amended): testnet_deploy.main's calls are exactly the leading calls
\* of ganache_deploy.main (the six deployments, two initialize, three
\* setters); ganache_deploy.main then goes on with smoke-test calls only.
C5_TestnetIsPrefix ==
    status = "done" =>
        /\ script = "testnet" =>
              /\ IsPrefix(AbsSeq(trace), AbsSeq(RemoteStmts("ganache")))
              /\ Len(trace) < Len(RemoteStmts("ganache"))
        /\ script = "ganache" =>
              /\ IsPrefix(AbsSeq(RemoteStmts("testnet")), AbsSeq(trace))
              /\ \A i \in Idx : i > Len(RemoteStmts("testnet")) =>
                    /\ trace[i].kind \in {"tx", "call"}
                    /\ trace[i].fn \notin Setters \cup {"initialize"}

C5_Witness ==
    /\ status = "done"
    /\ script = "testnet"
    /\ Len(trace) = 11

\* ------------------------------------------------------------------ C6
EconomicOps ==
    {"mint", "pullPending", "pushBalance", "approve", "redeem",
     "redeemUnderlying", "payDebts", "claim", "registerValidator"}

Observers == {"exchangeRatio", "balanceOf", "allowance", "debtOf"}

Invoked(fn, kind) ==
    \E i \in Idx : trace[i].fn = fn /\ trace[i].kind = kind /\ Confirmed(i)

\* C6 (as stated): a complete run of the smoke-test script invokes every
\* economic operation, registerValidator included, and reads every observer.
C6_AllOpsExercised ==
    (status = "done" /\ script = "ganache") =>
        /\ \A fn \in EconomicOps : Invoked(fn, "tx")
        /\ \A fn \in Observers : Invoked(fn, "call")

\* C6 (amended): a complete run of the smoke-test script invokes every
\* economic operation except registerValidator, which no run ever calls,
\* and reads every observer.
C6_AllButRegisterValidator ==
    /\ (status = "done" /\ script = "ganache") =>
          /\ \A fn \in EconomicOps \ {"registerValidator"} : Invoked(fn, "tx")
          /\ \A fn \in Observers : Invoked(fn, "call")
    /\ \A i \in Idx : trace[i].fn # "registerValidator"

C6_Witness ==
    /\ status = "done"
    /\ script = "ganache"
    /\ Invoked("claim", "tx")
    /\ Invoked("debtOf", "call")
\* ------------------------------------------------------------------ C7
\* C7: the wiring is setMintable(staking proxy, True) on the token proxy,
\* then setStIOTXContractAddress(token proxy) and setRedeemContract(redeem
\* proxy) on the staking proxy; a setter is issued only after all six
\* deployments and after initialize on the proxy it is called on; targets
\* and address arguments are proxies, never implementations; a complete run
\* leaves token and staking contract pointing at each other's proxy.
C7_CrossWiring ==
    /\ \A i \in Idx : trace[i].fn \in Setters =>
          /\ Cardinality({j \in 1..(i - 1) :
                            trace[j].kind = "deploy" /\ Confirmed(j)}) = 6
          /\ \E j \in 1..(i - 1) : /\ trace[j].fn = "initialize"
                                   /\ trace[j].to = trace[i].to
                                   /\ Confirmed(j)
          /\ trace[i].to \in ProxyAddrs
          /\ trace[i].args[1] \in ProxyAddrs
          /\ trace[i].args[1] \notin ImplAddrs
    /\ \A i \in Idx : trace[i].fn = "setMintable" =>
          /\ trace[i].to \in ProxiesOf("stIOTX")
          /\ trace[i].args[1] \in ProxiesOf("IOTEXStaking")
          /\ trace[i].args[2] = "True"
    /\ \A i \in Idx : trace[i].fn = "setStIOTXContractAddress" =>
          /\ trace[i].to \in ProxiesOf("IOTEXStaking")
          /\ trace[i].args = <<env["transparent_stIOTX"]>>
          /\ trace[i].args[1] \in ProxiesOf("stIOTX")
          /\ \E j \in 1..(i - 1) : trace[j].fn = "setMintable"
    /\ \A i \in Idx : trace[i].fn = "setRedeemContract" =>
          /\ trace[i].to \in ProxiesOf("IOTEXStaking")
          /\ trace[i].args[1] \in ProxiesOf("IotexRedeem")
          /\ \E j \in 1..(i - 1) : trace[j].fn = "setStIOTXContractAddress"
    /\ status = "done" =>
          /\ Wired(env["transparent_stIOTX"], "setMintable")
                = {env["transparent_staking"]}
          /\ Wired(env["transparent_staking"], "setStIOTXContractAddress")
                = {env["transparent_stIOTX"]}
          /\ Wired(env["transparent_staking"], "setRedeemContract")
                = {env["transparent_redeem"]}

C7_Witness ==
    /\ status = "done"
    /\ \E i \in Idx : trace[i].fn = "setRedeemContract" /\ Confirmed(i)
    /\ env["transparent_stIOTX"] # env["transparent_staking"]

\* ------------------------------------------------------------------ C8
\* C8 (as stated): every deployment is sent from the deployer and every
\* call through a proxy, reads included, is sent from the owner; owner and
\* deployer are distinct.
C8_AllProxyCallsFromOwner ==
    /\ owner(script) # deployer(script)
    /\ \A i \in Idx :
          /\ trace[i].kind = "deploy" => trace[i].sender = deployer(script)
          /\ trace[i].kind \in {"tx", "call"} =>
                trace[i].sender = owner(script)

\* C8 (amended): every deployment is sent from the deployer; every
\* transaction through a proxy is sent from the owner; a read-only call
\* names no sender at all; no call through a proxy names the deployer (the
\* proxy admin); owner and deployer are distinct.
C8_SenderRoles ==
    /\ owner(script) # deployer(script)
    /\ env["owner"] = owner(script) /\ env["deployer"] = deployer(script)
    /\ \A i \in Idx :
          /\ trace[i].kind = "deploy" => trace[i].sender = deployer(script)
          /\ trace[i].kind = "tx" =>
                trace[i].sender = owner(script) /\ trace[i].to \in ProxyAddrs
          /\ trace[i].kind = "call" =>
                trace[i].sender = "" /\ trace[i].to \in ProxyAddrs
          /\ trace[i].kind \in {"tx", "call"} =>
                trace[i].sender # deployer(script)
          /\ IsProxyDeploy(trace[i]) => trace[i].args[2] = deployer(script)

C8_Witness ==
    /\ script = "ganache"
    /\ \E i \in Idx : trace[i].fn = "pullPending" /\ Confirmed(i)
    /\ \E i \in Idx : trace[i].kind = "call" /\ Confirmed(i)

\* ------------------------------------------------------------------ C9
\* the smoke-test transactions: <<name, first argument, value>>
SmokeOrder ==
    << <<"mint", "0", "1 ethers">>,
       <<"pullPending", "owner", NoValue>>,
       <<"pushBalance", "1.1 ethers", NoValue>>,
       <<"approve", "transparent_staking", NoValue>>,
       <<"redeem", "0.5 ethers", NoValue>>,
       <<"redeemUnderlying", "0.5 ethers", NoValue>>,
       <<"payDebts", "", "0.55 ethers">>,
       <<"pushBalance", "0.55 ethers", NoValue>>,
       <<"claim", "$ret", NoValue>> >>

IsSmoke(r) ==
    r.kind \in {"tx", "call"} /\ r.fn \notin Setters \cup {"initialize"}

IsSmokeTx(r) == r.kind = "tx" /\ IsSmoke(r)

SmokeTxs == SelectSeq(trace, IsSmokeTx)

\* C9: in ganache_deploy.main a smoke-test call is issued only after the
\* eleven deployment, initialize and wiring calls are confirmed; the
\* smoke-test transactions come in the order mint(1 ether), pullPending,
\* pushBalance(1.1), approve(staking proxy), redeem(0.5),
\* redeemUnderlying(0.5), payDebts(0.55), pushBalance(0.55), claim; and
\* claim's amount is the value returned by the balanceOf(owner) read on the
\* redeem proxy made right before it, after the final pushBalance.
C9_SmokeOrder ==
    script = "ganache" =>
      /\ \A i \in Idx : IsSmoke(trace[i]) =>
            /\ i > 11
            /\ \A j \in 1..11 : IsStateChanging(trace[j]) /\ Confirmed(j)
                                   /\ ~IsSmoke(trace[j])
      /\ Len(SmokeTxs) <= Len(SmokeOrder)
      /\ \A k \in 1..Len(SmokeTxs) :
            /\ SmokeTxs[k].fn = SmokeOrder[k][1]
            /\ SmokeTxs[k].value = SmokeOrder[k][3]
            /\ SmokeOrder[k][2] \notin {"", "$ret"} =>
                  SmokeTxs[k].args[1] = Resolve(SmokeOrder[k][2])
            /\ SmokeTxs[k].to =
                  IF SmokeTxs[k].fn = "approve" THEN env["transparent_stIOTX"]
                  ELSE IF SmokeTxs[k].fn = "claim" THEN env["transparent_redeem"]
                  ELSE env["transparent_staking"]
      /\ \A i \in Idx : trace[i].fn = "claim" =>
            /\ trace[i - 1].fn = "balanceOf" /\ trace[i - 1].kind = "call"
            /\ trace[i - 1].to = env["transparent_redeem"]
            /\ trace[i - 1].args = <<owner(script)>>
            /\ Confirmed(i - 1)
            /\ trace[i].args[1] \in ReadValues
            /\ \E j \in 1..(i - 2) : /\ trace[j].fn = "pushBalance"
                                     /\ trace[j].args = <<"0.55 ethers">>
                                     /\ Confirmed(j)
            /\ \A j \in Idx : (j > i) => ~IsStateChanging(trace[j])
            /\ trace[i].status = "pending" => trace[i].args = <<ret>>

C9_Witness ==
    /\ script = "ganache"
    /\ phase = "pending"
    /\ Last.fn = "claim"
    /\ Last.args = <<Amounts[2]>>
    /\ Len(SmokeTxs) = 9

\* ----------------------------------------------------------------- C10
StateChanging == SelectSeq(trace, IsStateChanging)

Count(P(_)) == Cardinality({i \in Idx : P(trace[i])})

IsInitialize(r) == r.fn = "initialize"

IsSetter(r) == r.fn \in Setters

IsDeploy(r) == r.kind = "deploy"

\* C10: every run ends; a complete run has issued each state-changing call
\* of its script exactly once (testnet_deploy.main: 6 deployments + 2
\* initialize + 3 setters = 11; ganache_deploy.main: those 11 and 9
\* smoke-test transactions = 20); a run in which a call fails ends at
\* that call.
C10_Terminates ==
    /\ <>(status # "running")
    /\ [](status = "done" =>
            /\ Count(IsDeploy) = 6
            /\ Count(IsInitialize) = 2
            /\ Count(IsSetter) = 3
            /\ Len(SmokeTxs) = (IF script = "ganache" THEN 9 ELSE 0)
            /\ Len(StateChanging) = (IF script = "ganache" THEN 20 ELSE 11)
            /\ \A i, j \in 1..Len(StateChanging) :
                  i # j => StateChanging[i].line # StateChanging[j].line
            /\ \A i \in Idx : Confirmed(i))
    /\ [](status = "failed" =>
            /\ Last.status = "failed"
            /\ pc <= Len(main(script))
            /\ main(script)[pc].line = Last.line)
    /\ [][status # "running" => UNCHANGED vars]_vars

C10_Witness ==
    /\ status = "done"
    /\ script = "ganache"
    /\ Len(StateChanging) = 20
    /\ printed = 11
====
